---- MODULE Spec2Model ----
(***************************************************************************)
(* Shot labelling engine of the tennis annotation tool: the court-quadrant *)
(* classifier, the direction table, the three label generators (rule /     *)
(* random, CNN, Gemini) and the rally loop that assembles the events.      *)
(***************************************************************************)
EXTENDS Integers, Sequences, FiniteSets, TLC

(***************************************************************************)
(* Strings.  A Python string is modelled by the sequence of its characters *)
(* so that f-string formatting, str.split, the `in` substring test and the *)
(* letter case of a label are computed, not assumed.  Vocabulary words are *)
(* written as TLA+ strings and spelled out by Spell.                       *)
(***************************************************************************)
Spell ==
    ("near_deuce" :> <<"n","e","a","r","_","d","e","u","c","e">>)
    @@ ("near_ad" :> <<"n","e","a","r","_","a","d">>)
    @@ ("far_deuce" :> <<"f","a","r","_","d","e","u","c","e">>)
    @@ ("far_ad" :> <<"f","a","r","_","a","d">>)
    @@ ("near" :> <<"n","e","a","r">>)
    @@ ("far" :> <<"f","a","r">>)
    @@ ("ad" :> <<"a","d">>)
    @@ ("deuce" :> <<"d","e","u","c","e">>)
    @@ ("deuce_ad" :> <<"d","e","u","c","e","_","a","d">>)
    @@ ("deuce_deuce" :> <<"d","e","u","c","e","_","d","e","u","c","e">>)
    @@ ("ad_ad" :> <<"a","d","_","a","d">>)
    @@ ("ad_deuce" :> <<"a","d","_","d","e","u","c","e">>)
    @@ ("forehand" :> <<"f","o","r","e","h","a","n","d">>)
    @@ ("backhand" :> <<"b","a","c","k","h","a","n","d">>)
    @@ ("fh" :> <<"f","h">>)
    @@ ("bh" :> <<"b","h">>)
    @@ ("-" :> <<"-">>)
    @@ ("gs" :> <<"g","s">>)
    @@ ("vs" :> <<"v","s">>)
    @@ ("s" :> <<"s">>)
    @@ ("serve" :> <<"s","e","r","v","e">>)
    @@ ("return" :> <<"r","e","t","u","r","n">>)
    @@ ("stroke" :> <<"s","t","r","o","k","e">>)
    @@ ("swing" :> <<"s","w","i","n","g">>)
    @@ ("volley" :> <<"v","o","l","l","e","y">>)
    @@ ("lob" :> <<"l","o","b">>)
    @@ ("smash" :> <<"s","m","a","s","h">>)
    @@ ("t" :> <<"t">>)
    @@ ("b" :> <<"b">>)
    @@ ("w" :> <<"w">>)
    @@ ("cc" :> <<"c","c">>)
    @@ ("dl" :> <<"d","l">>)
    @@ ("ii" :> <<"i","i">>)
    @@ ("io" :> <<"i","o">>)
    @@ ("CC" :> <<"C","C">>)
    @@ ("DL" :> <<"D","L">>)
    @@ ("II" :> <<"I","I">>)
    @@ ("IO" :> <<"I","O">>)
    @@ ("cross" :> <<"c","r","o","s","s">>)
    @@ ("straight" :> <<"s","t","r","a","i","g","h","t">>)
    @@ ("conventional" :> <<"c","o","n","v","e","n","t","i","o","n","a","l">>)
    @@ ("i-formation" :> <<"i","-","f","o","r","m","a","t","i","o","n">>)
    @@ ("non-serve" :> <<"n","o","n","-","s","e","r","v","e">>)
    @@ ("in" :> <<"i","n">>)
    @@ ("win" :> <<"w","i","n">>)
    @@ ("err" :> <<"e","r","r">>)

UpperChars ==
    {"A","B","C","D","E","F","G","H","I","J","K","L","M",
     "N","O","P","Q","R","S","T","U","V","W","X","Y","Z"}

\* s == s.lower() for a character sequence
IsLower(cs) ==
    \A k \in 1..Len(cs) : cs[k] \notin UpperChars

\* sub in s  (Python substring test)
Contains(cs, sub) ==
    \E k \in 0..(Len(cs) - Len(sub)) : SubSeq(cs, k + 1, k + Len(sub)) = sub

RECURSIVE SplitFrom(_, _, _, _)
SplitFrom(cs, sep, k, cur) ==
    IF k > Len(cs) THEN <<cur>>
    ELSE IF cs[k] = sep THEN <<cur>> \o SplitFrom(cs, sep, k + 1, <<>>)
    ELSE SplitFrom(cs, sep, k + 1, Append(cur, cs[k]))

\* s.split(sep) for a one-character separator
Split(cs, sep) ==
    SplitFrom(cs, sep, 1, <<>>)

RECURSIVE Join(_, _)
\* sep.join(parts); also the f-string "{a}_{b}_..." of the label formats
Join(parts, sep) ==
    IF Len(parts) = 0 THEN <<>>
    ELSE IF Len(parts) = 1 THEN parts[1]
    ELSE parts[1] \o <<sep>> \o Join(Tail(parts), sep)

\* the vocabulary word a character sequence spells
Word(cs) ==
    CHOOSE w \in DOMAIN Spell : Spell[w] = cs

Null == [null |-> TRUE]

\* a dict without keys
EmptyObject == <<>>

(***************************************************************************)
(* Geometry classifier and direction table (shot_labelling_model.py).      *)
(***************************************************************************)
Quadrants == {"near_deuce", "near_ad", "far_deuce", "far_ad"}

\* get_court_position with the near test written >= instead of >
get_court_position_near_on_net(net_position, player_position) ==
    IF net_position = Null \/ player_position = Null
    THEN Quadrants
    ELSE LET is_near == player_position.y >= net_position.y
             is_deuce == player_position.x < net_position.x
         IN  IF is_near
             THEN {IF is_deuce THEN "near_deuce" ELSE "near_ad"}
             ELSE {IF is_deuce THEN "far_deuce" ELSE "far_ad"}

\* The set of values get_court_position can return: one quadrant when both
\* positions are given, any of the four (random.choice) when one is missing.
get_court_position(net_position, player_position) ==
    IF net_position = Null \/ player_position = Null
    THEN Quadrants
    ELSE LET is_near == player_position.y > net_position.y
             is_deuce == player_position.x < net_position.x
         IN  IF is_near
             THEN {IF is_deuce THEN "near_deuce" ELSE "near_ad"}
             ELSE {IF is_deuce THEN "far_deuce" ELSE "far_ad"}

\* POSSIBLE_SHOT_DIRECTIONS with the left-handed table a copy of the
\* right-handed one
POSSIBLE_SHOT_DIRECTIONS_left_as_right ==
    [left |->
        [forehand |-> [deuce_ad |-> "DL", deuce_deuce |-> "CC",
                       ad_ad |-> "IO", ad_deuce |-> "II"],
         backhand |-> [deuce_ad |-> "II", deuce_deuce |-> "IO",
                       ad_ad |-> "CC", ad_deuce |-> "DL"]],
     right |->
        [forehand |-> [deuce_ad |-> "DL", deuce_deuce |-> "CC",
                       ad_ad |-> "IO", ad_deuce |-> "II"],
         backhand |-> [deuce_ad |-> "II", deuce_deuce |-> "IO",
                       ad_ad |-> "CC", ad_deuce |-> "DL"]]]

POSSIBLE_SHOT_DIRECTIONS ==
    [left |->
        [forehand |-> [deuce_ad |-> "II", deuce_deuce |-> "IO",
                       ad_ad |-> "CC", ad_deuce |-> "DL"],
         backhand |-> [deuce_ad |-> "DL", deuce_deuce |-> "CC",
                       ad_ad |-> "IO", ad_deuce |-> "II"]],
     right |->
        [forehand |-> [deuce_ad |-> "DL", deuce_deuce |-> "CC",
                       ad_ad |-> "IO", ad_deuce |-> "II"],
         backhand |-> [deuce_ad |-> "II", deuce_deuce |-> "IO",
                       ad_ad |-> "CC", ad_deuce |-> "DL"]]]

Raise(what) == [raised |-> TRUE, what |-> what]

Return(v) == [raised |-> FALSE, val |-> v]

\* get_shot_direction with the end side read from start
get_shot_direction_end_from_start(handedness, side, start, end) ==
    IF \/ (Contains(Spell[start], Spell["near"]) /\ Contains(Spell[end], Spell["near"]))
       \/ (Contains(Spell[start], Spell["far"]) /\ Contains(Spell[end], Spell["far"]))
    THEN Raise("Exception")
    ELSE LET start_court_pos == IF Contains(Spell[start], Spell["ad"]) THEN "ad" ELSE "deuce"
             end_court_pos == IF Contains(Spell[start], Spell["ad"]) THEN "ad" ELSE "deuce"
             key == Word(Join(<<Spell[start_court_pos], Spell[end_court_pos]>>, "_"))
         IN  IF handedness \notin DOMAIN POSSIBLE_SHOT_DIRECTIONS
             THEN Raise("KeyError")
             ELSE IF side \notin DOMAIN POSSIBLE_SHOT_DIRECTIONS[handedness]
             THEN Raise("KeyError")
             ELSE Return(POSSIBLE_SHOT_DIRECTIONS[handedness][side][key])

\* get_shot_direction either returns a table entry or raises: the explicit
\* Exception for two positions in the same half, a KeyError for a handedness
\* or side that is no key of the table.
get_shot_direction(handedness, side, start, end) ==
    IF \/ (Contains(Spell[start], Spell["near"]) /\ Contains(Spell[end], Spell["near"]))
       \/ (Contains(Spell[start], Spell["far"]) /\ Contains(Spell[end], Spell["far"]))
    THEN Raise("Exception")
    ELSE LET start_court_pos == IF Contains(Spell[start], Spell["ad"]) THEN "ad" ELSE "deuce"
             end_court_pos == IF Contains(Spell[end], Spell["ad"]) THEN "ad" ELSE "deuce"
             key == Word(Join(<<Spell[start_court_pos], Spell[end_court_pos]>>, "_"))
         IN  IF handedness \notin DOMAIN POSSIBLE_SHOT_DIRECTIONS
             THEN Raise("KeyError")
             ELSE IF side \notin DOMAIN POSSIBLE_SHOT_DIRECTIONS[handedness]
             THEN Raise("KeyError")
             ELSE Return(POSSIBLE_SHOT_DIRECTIONS[handedness][side][key])

(***************************************************************************)
(* Player identity and handedness (shot_labelling_model.py, random.py).    *)
(* A hitting moment is a record holding only the keys the JSON object has, *)
(* so `"k" in moment` is "k" \in DOMAIN moment.  The player string "p<k>"  *)
(* is modelled by the number k.                                            *)
(***************************************************************************)
Get(d, k, default) ==
    IF k \in DOMAIN d THEN d[k] ELSE default

\* box.get("bbox")[2] * box.get("bbox")[3]
box_area(box) ==
    IF "bbox" \in DOMAIN box /\ Len(box.bbox) >= 4
    THEN box.bbox[3] * box.bbox[4]
    ELSE 0

\* max(boxes, key=area): the first box of largest area
largest_box(boxes) ==
    LET best == CHOOSE k \in 1..Len(boxes) :
                    /\ \A j \in 1..Len(boxes) : box_area(boxes[j]) <= box_area(boxes[k])
                    /\ \A j \in 1..(k - 1) : box_area(boxes[j]) < box_area(boxes[k])
    IN  boxes[best]

\* The players get_player_from_hitting_moment can return: the explicit
\* playerId, else the category of the largest box, else random.randint(1, 4).
get_player_from_hitting_moment(hitting_moment) ==
    IF "playerId" \in DOMAIN hitting_moment
    THEN {hitting_moment.playerId}
    ELSE IF /\ "boundingBoxes" \in DOMAIN hitting_moment
            /\ Len(hitting_moment.boundingBoxes) > 0
            /\ "category_id" \in DOMAIN largest_box(hitting_moment.boundingBoxes)
    THEN {largest_box(hitting_moment.boundingBoxes).category_id}
    ELSE 1..4

RECURSIVE handedness_from(_, _, _)
handedness_from(player_id, categories, k) ==
    IF k > Len(categories) THEN "unknown"
    ELSE IF categories[k].id = player_id
    THEN Get(categories[k], "handedness", "unknown")
    ELSE handedness_from(player_id, categories, k + 1)

get_player_handedness(player_id, categories) ==
    IF Len(categories) = 0 THEN "unknown"
    ELSE handedness_from(player_id, categories, 1)

(***************************************************************************)
(* CNN strategy (cnn.py).  A predict_* operator is the set of values the   *)
(* method can return.  reverse_mappings holds the classes of each trained  *)
(* task (tennis_dataset.py, _extract_label); an index outside the mapping  *)
(* or a failing inference gives the method's default.                      *)
(***************************************************************************)
Tasks == {"shot_type", "side", "formation", "shot_direction", "serve_direction", "outcome"}

reverse_mappings ==
    [side |-> {"forehand", "backhand"},
     shot_type |-> {"swing", "volley", "lob", "smash"},
     formation |-> {"conventional", "i-formation"},
     shot_direction |-> {"cross", "straight"},
     serve_direction |-> {"t", "w", "b"},
     outcome |-> {"win", "err"}]

predict_side(models, has_player, is_serve) ==
    IF is_serve THEN {"forehand"}
    ELSE IF ~has_player THEN {"forehand"}
    ELSE IF "side" \notin models THEN {"forehand"}
    ELSE reverse_mappings["side"] \cup {"forehand"}

predict_shot_type(models, has_player, is_serve, is_return) ==
    IF is_serve THEN {"serve"}
    ELSE IF is_return THEN {"return"}
    ELSE IF ~has_player \/ "shot_type" \notin models THEN {"swing"}
    ELSE reverse_mappings["shot_type"] \cup {"swing"}

predict_formation(models, has_player, has_partner, is_serve) ==
    IF ~is_serve THEN {"non-serve"}
    ELSE IF ~has_player \/ ~has_partner \/ "formation" \notin models
    THEN {"conventional"}
    ELSE reverse_mappings["formation"] \cup {"conventional"}

\* correct_direction_by_strategy with the left-handed rules copied from the
\* right-handed ones instead of mirrored
correct_direction_not_mirrored(predicted_direction, court_position, side, handedness) ==
    LET court_side == IF Contains(Spell[court_position], <<"_">>)
                      THEN Split(Spell[court_position], "_")[2]
                      ELSE Spell["deuce"]
        inside == IF predicted_direction = "dl" THEN "ii" ELSE "io"
    IN  IF handedness \in {"right", "left"}
        THEN IF court_side = Spell["deuce"]
             THEN IF side = "backhand" THEN inside ELSE predicted_direction
             ELSE IF court_side = Spell["ad"]
             THEN IF side = "forehand" THEN inside ELSE predicted_direction
             ELSE predicted_direction
        ELSE predicted_direction

correct_direction_by_strategy(predicted_direction, court_position, side, handedness) ==
    LET court_side == IF Contains(Spell[court_position], <<"_">>)
                      THEN Split(Spell[court_position], "_")[2]
                      ELSE Spell["deuce"]
        inside == IF predicted_direction = "dl" THEN "ii" ELSE "io"
    IN  IF handedness = "right"
        THEN IF court_side = Spell["deuce"]
             THEN IF side = "forehand" THEN predicted_direction
                  ELSE IF side = "backhand" THEN inside
                  ELSE predicted_direction
             ELSE IF court_side = Spell["ad"]
             THEN IF side = "forehand" THEN inside
                  ELSE IF side = "backhand" THEN predicted_direction
                  ELSE predicted_direction
             ELSE predicted_direction
        ELSE IF handedness = "left"
        THEN IF court_side = Spell["deuce"]
             THEN IF side = "forehand" THEN inside
                  ELSE IF side = "backhand" THEN predicted_direction
                  ELSE predicted_direction
             ELSE IF court_side = Spell["ad"]
             THEN IF side = "forehand" THEN predicted_direction
                  ELSE IF side = "backhand" THEN inside
                  ELSE predicted_direction
             ELSE predicted_direction
        ELSE predicted_direction

predict_direction(models, has_player, has_player_n, is_serve, court_position, side, handedness) ==
    IF is_serve
    THEN IF ~has_player \/ "serve_direction" \notin models
         THEN {"t"}
         ELSE reverse_mappings["serve_direction"] \cup {"t"}
    ELSE LET direction_types ==
                 IF has_player /\ has_player_n /\ "shot_direction" \in models
                 THEN reverse_mappings["shot_direction"] \cup {"cross"}
                 ELSE {"cross"}
             predicted == {IF d = "cross" THEN "cc" ELSE "dl" : d \in direction_types}
         IN  {correct_direction_by_strategy(p, court_position, side, handedness) : p \in predicted}

predict_outcome(models, has_player, has_player_n, is_last_shot) ==
    IF ~is_last_shot THEN {"in"}
    ELSE IF ~has_player \/ ~has_player_n \/ "outcome" \notin models
    THEN {"err"}
    ELSE reverse_mappings["outcome"] \cup {"err"}

\* Format with the components separated by "-" instead of "_"
Format_dash_separated(comps, order) ==
    Join([k \in 1..Len(order) |-> Spell[comps[order[k]]]], "-")

\* The label f-string: the named components joined by "_" in the given order.
Format(comps, order) ==
    Join([k \in 1..Len(order) |-> Spell[comps[order[k]]]], "_")

\* The event dict of one shot (player_position only when the moment has
\* one), next to the components and the order its label was formatted from.
Shot(player, frame, handedness, position, comps, order, outcome) ==
    [kind |-> "event",
     event |-> [player |-> player, frame |-> frame,
                label |-> Format(comps, order), outcome |-> outcome,
                handedness |-> handedness]
               @@ (IF position = Null THEN EmptyObject
                   ELSE [player_position |-> position]),
     comps |-> comps,
     order |-> order]

Skipped == [kind |-> "skip"]

Raised == [kind |-> "raise"]

cnn_order == <<"court_position", "side", "shot_type", "direction", "formation", "outcome">>

\* The component tuples the five predict_* calls of one iteration can give.
cnn_components(models, paths, is_serve, is_return, is_last_shot, court_position, handedness) ==
    {c \in [court_position : {court_position},
            side : predict_side(models, paths[1], is_serve),
            shot_type : predict_shot_type(models, paths[1], is_serve, is_return),
            formation : predict_formation(models, paths[1], paths[2], is_serve),
            direction : {"t", "w", "b", "cc", "dl", "ii", "io"},
            outcome : predict_outcome(models, paths[1], paths[3], is_last_shot)] :
        c.direction \in predict_direction(models, paths[1], paths[3], is_serve,
                                          court_position, c.side, handedness)}

\* One iteration of the loop of CNNModel.generate_shot_labels: the set of its
\* outcomes for moment i (0-based) of n.  paths tells which of player_path,
\* partner_path, player_n_path extract_player_images found; they depend on
\* files outside the model and are free.
cnn_shot(i, n, moment, net_position, categories, models) ==
    IF "frameNumber" \notin DOMAIN moment /\ "frame" \notin DOMAIN moment
    THEN {Skipped}
    ELSE
    LET frame_number == IF "frameNumber" \in DOMAIN moment
                        THEN moment.frameNumber ELSE moment.frame
        is_serve == (i = 0)
        is_return == (i = 1)
        is_last_shot == (i = n - 1)
        player_position == Get(moment, "playerPosition", Null)
    IN  UNION {
          {Shot(player_id, frame_number, get_player_handedness(player_id, categories),
                player_position, c, cnn_order, c.outcome) :
             c \in cnn_components(models, paths, is_serve, is_return, is_last_shot,
                                  court_position,
                                  get_player_handedness(player_id, categories))} :
          player_id \in get_player_from_hitting_moment(moment),
          paths \in BOOLEAN \X BOOLEAN \X BOOLEAN,
          court_position \in get_court_position(net_position, player_position)}

(***************************************************************************)
(* Gemini strategy (gemini.py).  The model's reply is free: the call or    *)
(* the parsing of its text can raise, the JSON can be unparsable           *)
(* (JSONDecodeError, the fallback values), or it is an object holding, for *)
(* each key the prompt asks for, one of the values the prompt lists, or    *)
(* not holding the key (the default of .get).                              *)
(***************************************************************************)
Absent == "<absent>"

Answer(reply, k, default) ==
    IF reply[k] = Absent THEN default ELSE reply[k]

serve_order == <<"court_position", "side", "shot_type", "direction", "formation", "outcome">>

\* The serve prompts list 'win', 'err' and 'in' for outcome; the prompt of a
\* serve that is not last asks for two keys only, but the reply's outcome key
\* is read whichever prompt was sent.
ServeReplies(is_last) ==
    [formation : {Absent, "conventional", "i-formation"},
     direction : {Absent, "t", "b", "w"},
     outcome : {Absent, "win", "err", "in"}]

\* analyze_serve_sequence and the serve event of generate_shot_labels
gemini_serve(n, moment, net_position, categories) ==
    LET is_last == (n = 1)
        frame_number == Get(moment, "frameNumber", 0) + 1
        player_position == Get(moment, "playerPosition", Null)
        fallback == [formation |-> Absent, direction |-> Absent, outcome |-> Absent]
    IN  {Raised} \cup UNION {
          {Shot(player, frame_number, get_player_handedness(player, categories),
                player_position,
                [court_position |-> court_position, side |-> "forehand",
                 shot_type |-> "serve",
                 direction |-> Answer(reply, "direction", "t"),
                 formation |-> Answer(reply, "formation", "conventional"),
                 outcome |-> Answer(reply, "outcome", IF is_last THEN "win" ELSE "in")],
                serve_order,
                Answer(reply, "outcome", IF is_last THEN "win" ELSE "in")) :
             reply \in ServeReplies(is_last) \cup {fallback}} :
          player \in get_player_from_hitting_moment(moment),
          court_position \in get_court_position(net_position, player_position)}

shot_order == <<"court_position", "side", "shot_type", "direction", "formation", "outcome">>

ShotReplies(is_last) ==
    [side : {Absent, "forehand", "backhand"},
     shot_type : {Absent, "return", "swing", "volley", "lob", "smash"},
     direction : IF is_last THEN {Absent, "ii", "io", "dl", "cc"} ELSE {Absent},
     outcome : IF is_last THEN {Absent, "win", "err"} ELSE {Absent}]

\* analyze_shot_sequence and the event of generate_shot_labels for moment
\* i >= 1.  For a shot that is not the last the direction is looked up in the
\* table from the court positions of this and of the next moment, and a raise
\* of get_shot_direction leaves the method.  The player is resolved twice,
\* once for the analysis (analysed) and once for the event (player).
gemini_shot(i, n, moment, next_moment, net_position, categories) ==
    LET is_return == (i = 1)
        is_last == (i = n - 1)
        start_frame == Get(moment, "frameNumber", 0) + 1
        player_position == Get(moment, "playerPosition", Null)
        fallback == [side |-> Absent, shot_type |-> Absent,
                     direction |-> Absent, outcome |-> Absent]
        next_courts == IF is_last THEN {"-"}
                       ELSE get_court_position(net_position,
                                               Get(next_moment, "playerPosition", Null))
    IN  {Raised} \cup UNION {
          LET handedness == get_player_handedness(analysed, categories)
              side == Answer(reply, "side", "forehand")
              shot_type == Answer(reply, "shot_type", IF is_return THEN "return" ELSE "swing")
              looked_up == get_shot_direction(handedness, side, court_position, next_court)
              outcome == IF is_last THEN Answer(reply, "outcome", "win") ELSE "in"
          IN  IF ~is_last /\ looked_up.raised
              THEN {Raised}
              ELSE {Shot(player, start_frame, get_player_handedness(player, categories),
                         player_position,
                         [court_position |-> court_position, side |-> side,
                          shot_type |-> shot_type,
                          direction |-> IF is_last THEN Answer(reply, "direction", "cc")
                                        ELSE looked_up.val,
                          formation |-> "non-serve", outcome |-> outcome],
                         shot_order, outcome)} :
          analysed \in get_player_from_hitting_moment(moment),
          player \in get_player_from_hitting_moment(moment),
          court_position \in get_court_position(net_position, player_position),
          next_court \in next_courts,
          reply \in ShotReplies(is_last) \cup {fallback}}

(***************************************************************************)
(* Rule / random strategy (random.py).  get_random_court_position reads    *)
(* the coordinates with .get(k, 0); on positions that hold both x and y,   *)
(* the only ones used here, it is get_court_position.                      *)
(***************************************************************************)
random_order == <<"court_position", "shot_type", "technique", "style", "direction", "outcome">>

\* generate_random_shot_label: every label random.choice / random.choices
\* can produce (a choice of weight 0.0 is never drawn).
generate_random_shot_label(frame_index, hit_type, net_position, player_position, handedness) ==
    LET shot_type == hit_type
        techniques == IF handedness \in {"left", "right"}
                      THEN {"fh", "bh"} ELSE {"fh", "bh", "-"}
    IN  UNION {
          {[court_position |-> court_position, shot_type |-> shot_type,
            technique |-> technique, style |-> style,
            direction |-> direction, outcome |-> outcome] :
             style \in IF technique \in {"fh", "bh"}
                       THEN {"gs", "vs", "s", "-"} ELSE {"-"},
             direction \in IF shot_type = "serve"
                           THEN {"CC", "-"} ELSE {"CC", "DL", "IO", "II"},
             outcome \in {"in", "err", "win"}} :
          court_position \in get_court_position(net_position, player_position),
          technique \in techniques}

\* One iteration of the loop of generate_labels in random.py.  The outcome of
\* the last shot is re-drawn from {err, win} with probability 0.8 after the
\* label was built; otherwise the outcome of the label is kept.
random_shot(i, n, moment, net_position, categories) ==
    LET frame_number == Get(moment, "frameNumber", 0)
        hit_type == IF i = 0 THEN "serve" ELSE IF i = 1 THEN "return" ELSE "stroke"
        player_position == Get(moment, "playerPosition", Null)
    IN  UNION { UNION {
          {Shot(player_id, frame_number, get_player_handedness(player_id, categories),
                player_position, shot_info, random_order, outcome) :
             outcome \in {shot_info.outcome} \cup
                         (IF i = n - 1 THEN {"err", "win"} ELSE {})} :
          shot_info \in generate_random_shot_label(
                            i, hit_type, net_position, player_position,
                            get_player_handedness(player_id, categories))} :
          player_id \in get_player_from_hitting_moment(moment)}

(***************************************************************************)
(* sorted(hitting_moments, key=lambda x: x.get("frameNumber", 0)): a       *)
(* stable insertion sort on that key.                                      *)
(***************************************************************************)
sort_key(moment) ==
    Get(moment, "frameNumber", 0)

RECURSIVE insert_sorted(_, _)
insert_sorted(sorted, moment) ==
    IF Len(sorted) = 0 THEN <<moment>>
    ELSE IF sort_key(sorted[Len(sorted)]) <= sort_key(moment)
    THEN Append(sorted, moment)
    ELSE Append(insert_sorted(SubSeq(sorted, 1, Len(sorted) - 1), moment),
                sorted[Len(sorted)])

RECURSIVE sorted_by_frame(_)
sorted_by_frame(moments) ==
    IF Len(moments) = 0 THEN <<>>
    ELSE insert_sorted(sorted_by_frame(SubSeq(moments, 1, Len(moments) - 1)),
                       moments[Len(moments)])

(***************************************************************************)
(* State.  call / ret: one call of a function of the engine and its        *)
(* result.  The other variables are one run of generate_labels on one      *)
(* rally: the generator chosen, its configuration, the rally's hitting     *)
(* moments, the loop index i, the events built so far and, next to each    *)
(* event, the components its label was formatted from (built).             *)
(***************************************************************************)
VARIABLES call, ret, strategy, net_position, categories, models,
          hitting_moments, pc, i, events, built, rallies, predicted_rallies,
          confirmed, generated, first_read,
          training_status, inferring_status, requests, threads

\* the label files of the video, the two status objects of the routes and
\* the requests and background threads of the server
service_vars == <<confirmed, generated, first_read,
                  training_status, inferring_status, requests, threads>>

vars == <<call, ret, strategy, net_position, categories, models,
          hitting_moments, pc, i, events, built, rallies, predicted_rallies,
          service_vars>>

rally_vars == <<strategy, net_position, categories, models,
                hitting_moments, pc, i, events, built, rallies, predicted_rallies,
                service_vars>>

\* the variables of generate_labels
generator_vars == <<strategy, net_position, categories, models,
                    hitting_moments, pc, i, events, built, rallies, predicted_rallies>>

NoRet == [none |-> TRUE]

NoCall == [fn |-> "none"]

\* no label file, no request, no thread, both status objects as the modules
\* create them
IdleService ==
    /\ confirmed = Null
    /\ generated = Null
    /\ first_read = Null
    /\ training_status = [running |-> FALSE]
    /\ inferring_status = [running |-> FALSE]
    /\ requests = <<>>
    /\ threads = <<>>

\* generate_labels is not running
IdleGenerator ==
    /\ strategy = "none"
    /\ net_position = Null
    /\ categories = <<>>
    /\ models = {}
    /\ hitting_moments = <<>>
    /\ pc = "idle"
    /\ i = 0
    /\ events = <<>>
    /\ built = <<>>
    /\ rallies = <<>>
    /\ predicted_rallies = <<>>

\* the rally variables of a specification that only calls functions
IdleRally ==
    /\ IdleService
    /\ strategy = "none"
    /\ net_position = Null
    /\ categories = <<>>
    /\ models = {}
    /\ hitting_moments = <<>>
    /\ pc = "idle"
    /\ i = 0
    /\ events = <<>>
    /\ built = <<>>
    /\ rallies = <<>>
    /\ predicted_rallies = <<>>

\* ---- get_court_position over a grid of net and player positions ----
Grid == 2

Positions == [x : 0..Grid, y : 0..Grid]

InitGeom ==
    /\ call \in [fn : {"get_court_position"},
                 net : Positions \cup {Null},
                 player : Positions \cup {Null}]
    /\ ret = NoRet
    /\ IdleRally

CallCourtPosition ==
    /\ call.fn = "get_court_position"
    /\ ret = NoRet
    /\ \E q \in get_court_position(call.net, call.player) : ret' = Return(q)
    /\ UNCHANGED <<call, rally_vars>>

SpecGeom == InitGeom /\ [][CallCourtPosition]_vars

\* ---- get_shot_direction over every handedness, side, start and end ----
Handednesses == {"left", "right", "unknown"}

InitDir ==
    /\ call \in [fn : {"get_shot_direction"},
                 handedness : Handednesses,
                 side : {"forehand", "backhand"},
                 start : Quadrants,
                 end : Quadrants]
    /\ ret = NoRet
    /\ IdleRally

CallShotDirection ==
    /\ call.fn = "get_shot_direction"
    /\ ret = NoRet
    /\ ret' = get_shot_direction(call.handedness, call.side, call.start, call.end)
    /\ UNCHANGED <<call, rally_vars>>

SpecDir == InitDir /\ [][CallShotDirection]_vars

(***************************************************************************)
(* Properties of the geometry classifier and of the direction table.       *)
(***************************************************************************)
C9_Quadrant(net, player) ==
    IF player.y > net.y /\ player.x < net.x THEN "near_deuce"
    ELSE IF player.y > net.y /\ player.x >= net.x THEN "near_ad"
    ELSE IF player.y <= net.y /\ player.x < net.x THEN "far_deuce"
    ELSE "far_ad"

\* C9: for a net and a player position that are both given, every value
\* get_court_position can return is the one quadrant fixed by the signs of
\* player.y - net.y and player.x - net.x (near iff y > net.y, deuce iff
\* x < net.x); so the result is a function of the inputs and a random
\* quadrant is possible only when one of the two is missing.
C9_CourtPositionDeterministic ==
    (call.fn = "get_court_position" /\ ret # NoRet
        /\ call.net # Null /\ call.player # Null)
    => ret = Return(C9_Quadrant(call.net, call.player))

\* C9 witness: a player standing exactly on the net point is classified far_ad
C9_Witness ==
    /\ call.fn = "get_court_position"
    /\ call.net # Null
    /\ call.player = call.net
    /\ ret = Return("far_ad")

C10_Half(q) ==
    Split(Spell[q], "_")[1]

C10_Side(q) ==
    Split(Spell[q], "_")[2]

\* C10: for handedness left or right and start and end on opposite halves,
\* get_shot_direction returns one of II, IO, CC, DL; any other start/end pair
\* on opposite halves gives the same direction exactly when its ad/deuce
\* sides are the same as those of the call, so the result depends only on
\* (handedness, side, start side, end side) and the four side pairs of a
\* fixed (handedness, side) give four distinct directions.
C10_DirectionTable ==
    (call.fn = "get_shot_direction" /\ ret # NoRet
        /\ call.handedness \in {"left", "right"}
        /\ C10_Half(call.start) # C10_Half(call.end))
    => /\ ~ret.raised
       /\ ret.val \in {"II", "IO", "CC", "DL"}
       /\ \A s2 \in Quadrants, e2 \in Quadrants :
            C10_Half(s2) # C10_Half(e2) =>
              LET other == get_shot_direction(call.handedness, call.side, s2, e2)
              IN  /\ ~other.raised
                  /\ (other.val = ret.val) <=>
                        (C10_Side(s2) = C10_Side(call.start)
                           /\ C10_Side(e2) = C10_Side(call.end))

\* C10 witness: a right-hander's forehand from far_deuce to near_ad is DL
C10_Witness ==
    /\ call.fn = "get_shot_direction"
    /\ call.handedness = "right" /\ call.side = "forehand"
    /\ call.start = "far_deuce" /\ call.end = "near_ad"
    /\ ret = Return("DL")

(***************************************************************************)
(* One shot: a single iteration of a generator's loop, for every position  *)
(* i of the moment in a rally of n moments and every shape of the moment.  *)
(***************************************************************************)
MaxMoments == 4

Net == [x |-> 1, y |-> 1]

\* one point in each quadrant around Net
QuadrantPoints == {[x |-> 0, y |-> 2], [x |-> 2, y |-> 2],
                   [x |-> 0, y |-> 0], [x |-> 2, y |-> 0]}

Roster == <<[id |-> 1, handedness |-> "right"],
            [id |-> 2, handedness |-> "left"],
            [id |-> 3]>>

TwoBoxes == <<[bbox |-> <<0, 0, 1, 1>>, category_id |-> 1],
              [bbox |-> <<0, 0, 2, 2>>, category_id |-> 2],
              [bbox |-> <<0, 0, 2, 2>>]>>

PositionFields == {EmptyObject} \cup {[playerPosition |-> p] : p \in QuadrantPoints}

\* the usual moment: frameNumber, a rostered playerId, a position
UsualMoments ==
    {[frameNumber |-> 1, playerId |-> k, playerPosition |-> p] :
        k \in 1..2, p \in QuadrantPoints}

\* moments that differ from a usual one in their frame key, in the way the
\* player is given, or in lacking the position
OddMoments ==
    {f @@ [playerId |-> 1, playerPosition |-> [x |-> 0, y |-> 2]] :
        f \in {EmptyObject, [frame |-> 1]}}
    \cup {[frameNumber |-> 1, playerPosition |-> [x |-> 0, y |-> 2]] @@ w :
            w \in {EmptyObject, [boundingBoxes |-> TwoBoxes], [playerId |-> 3],
                   [playerId |-> 4]}}
    \cup {[frameNumber |-> 1, playerId |-> k] : k \in 1..2}

\* a moment together with the net position and the roster of its video
ShotInputs ==
    {[moment |-> m, net |-> Net, categories |-> Roster] : m \in UsualMoments \cup OddMoments}
    \cup {[moment |-> m, net |-> Null, categories |-> Roster] : m \in UsualMoments}
    \cup {[moment |-> m, net |-> Net, categories |-> <<>>] : m \in UsualMoments}

InitShot ==
    /\ call \in
          {[fn |-> "cnn_shot", i |-> k, n |-> n, in |-> e, models |-> ms] :
              n \in 1..MaxMoments, k \in 0..(MaxMoments - 1),
              e \in ShotInputs, ms \in {{}, Tasks}}
          \cup
          {[fn |-> "gemini_serve", i |-> 0, n |-> n, in |-> e] :
              n \in 1..MaxMoments, e \in ShotInputs}
          \cup
          {[fn |-> "gemini_shot", i |-> k, n |-> n, in |-> e, next |-> q] :
              n \in 1..MaxMoments, k \in 1..(MaxMoments - 1),
              e \in ShotInputs, q \in PositionFields}
          \cup
          {[fn |-> "random_shot", i |-> k, n |-> n, in |-> e] :
              n \in 1..MaxMoments, k \in 0..(MaxMoments - 1), e \in ShotInputs}
    /\ call.i < call.n
    /\ (call.fn = "gemini_shot" /\ call.i = call.n - 1) => call.next = EmptyObject
    /\ ret = NoRet
    /\ IdleRally

CallCnnShot ==
    /\ call.fn = "cnn_shot"
    /\ ret = NoRet
    /\ ret' \in cnn_shot(call.i, call.n, call.in.moment, call.in.net,
                         call.in.categories, call.models)
    /\ UNCHANGED <<call, rally_vars>>

CallGeminiServe ==
    /\ call.fn = "gemini_serve"
    /\ ret = NoRet
    /\ ret' \in gemini_serve(call.n, call.in.moment, call.in.net, call.in.categories)
    /\ UNCHANGED <<call, rally_vars>>

CallGeminiShot ==
    /\ call.fn = "gemini_shot"
    /\ ret = NoRet
    /\ ret' \in gemini_shot(call.i, call.n, call.in.moment, call.next, call.in.net,
                            call.in.categories)
    /\ UNCHANGED <<call, rally_vars>>

CallRandomShot ==
    /\ call.fn = "random_shot"
    /\ ret = NoRet
    /\ ret' \in random_shot(call.i, call.n, call.in.moment, call.in.net,
                            call.in.categories)
    /\ UNCHANGED <<call, rally_vars>>

NextShot ==
    \/ CallCnnShot
    \/ CallGeminiServe
    \/ CallGeminiShot
    \/ CallRandomShot

SpecShot == InitShot /\ [][NextShot]_vars

(***************************************************************************)
(* One run of generate_labels, rally by rally: the moments are sorted, the  *)
(* generator walks them in order and the events are collected.  A raise    *)
(* inside the Gemini generator leaves generate_labels (pc = "failed"); the *)
(* CNN generator skips the moment instead.                                 *)
(***************************************************************************)
MaxRally == 3

MaxFrame == 2

\* who hits at frame f and where: player 1 (right-handed) near the camera at
\* odd frames, player 2 (left-handed) on the far side at even frames
RallyHitter(f) ==
    IF f % 2 = 1
    THEN [playerId |-> 1, playerPosition |-> [x |-> 0, y |-> 2]]
    ELSE [playerId |-> 2, playerPosition |-> [x |-> 0, y |-> 0]]

\* a moment carries its frame as frameNumber, as frame, or not at all
RallyMoments ==
    {[frameNumber |-> f] @@ RallyHitter(f) : f \in 1..MaxFrame}
    \cup {[frame |-> f] @@ RallyHitter(f) : f \in 1..MaxFrame}
    \cup {RallyHitter(1)}

\* the hittingMoments lists of a rally, in any order
Rallies ==
    UNION {[1..n -> RallyMoments] : n \in 0..MaxRally}

\* The answers the classifiers, the language model and the random draws give
\* while a whole rally is walked: the defaults and one alternative for the
\* shot type and the outcome (every answer is covered call by call in
\* SpecShot).
RallyAnswers ==
    [random |-> Quadrants \cup {"serve", "return", "stroke", "fh", "gs", "CC", "in", "err"},
     cnn    |-> Quadrants \cup {"forehand", "serve", "return", "swing", "t", "cc", "io",
                                "conventional", "non-serve", "in", "win", "err"},
     gemini |-> Quadrants \cup {"forehand", "serve", "return", "swing", "t", "cc", "CC",
                                "IO", "conventional", "non-serve", "in", "win"}]

Answers(outcomes) ==
    {r \in outcomes :
        r.kind = "event" =>
            /\ \A k \in DOMAIN r.comps : r.comps[k] \in RallyAnswers[strategy]
            /\ r.event.outcome \in RallyAnswers[strategy]}

\* the rallies of the video after the first one: one without hitting
\* moments, one of a single moment with its frame, one of a single moment
\* without a frame
LaterRallies ==
    {<<>>, <<[frameNumber |-> 1] @@ RallyHitter(1)>>, <<RallyHitter(1)>>}

MaxBatch == 2

Init ==
    /\ call = NoCall
    /\ ret = NoRet
    /\ strategy \in {"random", "cnn", "gemini"}
    /\ net_position = Net
    /\ categories = Roster
    /\ models = IF strategy = "cnn" THEN Tasks ELSE {}
    /\ hitting_moments \in Rallies
    /\ pc = "start"
    /\ i = 0
    /\ events = <<>>
    /\ built = <<>>
    /\ rallies \in UNION {[1..n -> LaterRallies] : n \in 0..(MaxBatch - 1)}
    /\ predicted_rallies = <<>>
    /\ IdleService

\* generate_labels: a rally without hitting moments is passed over, the
\* moments of any other are sorted before the generator is called
Start ==
    /\ pc = "start"
    /\ IF hitting_moments = <<>>
       THEN /\ pc' = "skipped"
            /\ UNCHANGED hitting_moments
       ELSE /\ pc' = "loop"
            /\ hitting_moments' = sorted_by_frame(hitting_moments)
    /\ UNCHANGED <<call, ret, strategy, net_position, categories, models, i, events, built,
                   rallies, predicted_rallies, service_vars>>

\* the effect of one iteration with outcome r on the loop's variables
Collect(r) ==
    /\ i' = i + 1
    /\ IF r.kind = "event"
       THEN /\ events' = Append(events, r.event)
            /\ built' = Append(built, [comps |-> r.comps, order |-> r.order, moment |-> i])
            /\ pc' = pc
       ELSE IF r.kind = "skip"
       THEN UNCHANGED <<events, built, pc>>
       ELSE /\ pc' = "failed"
            /\ UNCHANGED <<events, built>>
    /\ UNCHANGED <<call, ret, strategy, net_position, categories, models, hitting_moments,
                   rallies, predicted_rallies, service_vars>>

RandomStep ==
    /\ pc = "loop"
    /\ strategy = "random"
    /\ i < Len(hitting_moments)
    /\ \E r \in Answers(random_shot(i, Len(hitting_moments), hitting_moments[i + 1],
                                    net_position, categories)) : Collect(r)

CnnStep ==
    /\ pc = "loop"
    /\ strategy = "cnn"
    /\ i < Len(hitting_moments)
    /\ \E r \in Answers(cnn_shot(i, Len(hitting_moments), hitting_moments[i + 1],
                                 net_position, categories, models)) : Collect(r)

GeminiServeStep ==
    /\ pc = "loop"
    /\ strategy = "gemini"
    /\ i = 0
    /\ \E r \in Answers(gemini_serve(Len(hitting_moments), hitting_moments[1],
                                     net_position, categories)) : Collect(r)

GeminiShotStep ==
    /\ pc = "loop"
    /\ strategy = "gemini"
    /\ i >= 1
    /\ i < Len(hitting_moments)
    /\ \E r \in Answers(gemini_shot(i, Len(hitting_moments), hitting_moments[i + 1],
                                    IF i = Len(hitting_moments) - 1 THEN EmptyObject
                                    ELSE hitting_moments[i + 2],
                                    net_position, categories)) : Collect(r)

\* what generate_shot_labels returns for the rally: the CNN generator
\* returns an error object when it built no event
rally_labels ==
    IF strategy = "cnn" /\ events = <<>>
    THEN [error |-> "Failed to generate any valid events", events |-> <<>>]
    ELSE [events |-> events, net_position |-> net_position]

\* the generator returns and generate_labels appends what it returned to
\* predicted_rallies
Finish ==
    /\ pc = "loop"
    /\ i = Len(hitting_moments)
    /\ pc' = "done"
    /\ predicted_rallies' = Append(predicted_rallies, rally_labels)
    /\ UNCHANGED <<call, ret, strategy, net_position, categories, models,
                   hitting_moments, i, events, built, rallies, service_vars>>

\* generate_labels goes on with the next rally of the video
NextRally ==
    /\ pc \in {"done", "skipped"}
    /\ rallies # <<>>
    /\ hitting_moments' = Head(rallies)
    /\ rallies' = Tail(rallies)
    /\ pc' = "start"
    /\ i' = 0
    /\ events' = <<>>
    /\ built' = <<>>
    /\ UNCHANGED <<call, ret, strategy, net_position, categories, models, predicted_rallies,
                   service_vars>>

Next ==
    \/ NextRally
    \/ Start
    \/ RandomStep
    \/ CnnStep
    \/ GeminiServeStep
    \/ GeminiShotStep
    \/ Finish

Spec == Init /\ [][Next]_vars

(***************************************************************************)
(* Properties of one event, checked on every outcome of one iteration of   *)
(* a generator (SpecShot).                                                 *)
(***************************************************************************)
IsEvent ==
    /\ call.fn \in {"cnn_shot", "gemini_serve", "gemini_shot", "random_shot"}
    /\ ret # NoRet
    /\ ret.kind = "event"

\* the label of the event split on "_"
Tokens ==
    Split(ret.event.label, "_")

SixComponents ==
    <<"court_position", "side", "shot_type", "direction", "formation", "outcome">>

\* C1 as stated: the label of an event built from courtPosition, side,
\* shotType, direction, formation, outcome splits on "_" into exactly six
\* tokens, which are those six components in that order.
C1_SixTokens ==
    (IsEvent /\ ret.order = SixComponents)
    => /\ Len(Tokens) = 6
       /\ \A k \in 1..6 : Tokens[k] = Spell[ret.comps[ret.order[k]]]

\* C1 amended: the label of every event splits on "_" into exactly seven
\* tokens: the court position gives the first two (its half and its side;
\* joined by "_" they are the court position) and the five further
\* components of the label give one token each, in the order of the label.
C1_SevenTokens ==
    IsEvent
    => /\ Len(Tokens) = 7
       /\ Join(SubSeq(Tokens, 1, 2), "_") = Spell[ret.comps.court_position]
       /\ ret.comps.court_position \in Quadrants
       /\ \A k \in 2..6 : Tokens[k + 1] = Spell[ret.comps[ret.order[k]]]

\* C1 witness: a CNN serve from far_ad whose label starts with the two tokens
\* far, ad and goes on with forehand, serve
C1_Witness ==
    /\ IsEvent
    /\ call.fn = "cnn_shot"
    /\ ret.comps.court_position = "far_ad"
    /\ SubSeq(Tokens, 1, 4) = <<Spell["far"], Spell["ad"], Spell["forehand"], Spell["serve"]>>
    /\ Len(Tokens) = 7

\* C2 as stated: whichever generator produced it, the label of an event is
\* assembled from courtPosition, side, shotType, direction, formation,
\* outcome in that order.
C2_SameSixComponents ==
    IsEvent
    => /\ ret.order = SixComponents
       /\ ret.event.label = Format(ret.comps, SixComponents)

\* C3 as stated: every character of every label is lowercase, and the
\* direction of an event that is not the serve is one of ii, io, cc, dl.
C3_LowercaseTokens ==
    IsEvent
    => /\ IsLower(ret.event.label)
       /\ call.i # 0 => ret.comps.direction \in {"ii", "io", "cc", "dl"}

\* C4 as stated: an event produced from a moment that is not the last
\* (i < n - 1) has outcome "in", both as the event's outcome and as the last
\* token of its label.
C4_NonLastOutcomeIn ==
    (IsEvent /\ call.i < call.n - 1)
    => /\ ret.event.outcome = "in"
       /\ Tokens[Len(Tokens)] = Spell["in"]

\* C5 as stated: the event produced from the last moment (i = n - 1) has an
\* outcome in {win, err}, never "in".
C5_LastOutcomeWinErr ==
    (IsEvent /\ call.i = call.n - 1)
    => ret.event.outcome \in {"win", "err"}

\* the token at the place of the label where the formation stands
FormationToken ==
    Word(Tokens[Len(Tokens) - 1])

\* the token at the place of the label where the side stands
SideToken ==
    Word(Tokens[3])

\* C7 as stated: the formation token of an event is "non-serve" exactly when
\* the event is not the serve (i # 0), the formation of the serve is
\* conventional or i-formation, and the side of the serve is forehand.
C7_RoleForcing ==
    IsEvent
    => /\ (FormationToken = "non-serve") <=> (call.i # 0)
       /\ call.i = 0 => /\ FormationToken \in {"conventional", "i-formation"}
                        /\ SideToken = "forehand"

(***************************************************************************)
(* Properties of the events of a whole rally (Spec).                       *)
(***************************************************************************)
\* C6 as stated: in the events a generator returns for a rally, the first
\* event has shot type "serve" and the second, when there is one, has shot
\* type "return", whichever moments were skipped and whatever the
\* classifier answered.
C6_ServeThenReturn ==
    pc = "done"
    => /\ Len(events) >= 1 => built[1].comps.shot_type = "serve"
       /\ Len(events) >= 2 => built[2].comps.shot_type = "return"

\* C8 as stated: the events returned for a rally are at most as many as its
\* hitting moments, come from distinct moments in the order of the sorted
\* list, and their frame numbers never decrease, whatever the order of the
\* input and whether a moment holds frameNumber or frame.
C8_OrderedSubsequence ==
    pc = "done"
    => /\ Len(events) <= Len(hitting_moments)
       /\ \A k \in 1..(Len(events) - 1) :
            /\ built[k].moment < built[k + 1].moment
            /\ events[k].frame <= events[k + 1].frame

\* the quadrants moment k (1-based) of the sorted rally can be given
CourtsOf(k) ==
    get_court_position(net_position, Get(hitting_moments[k], "playerPosition", Null))

\* C11 as stated: when the Gemini generator reaches a shot that is not the
\* last and whose hitter and next hitter are classified into the same
\* near/far half, so that get_shot_direction is called with start and end
\* in the same half, the iteration can still produce an event for that
\* moment (the call is not fatal).
C11_SameHalfNotFatal ==
    (/\ strategy = "gemini"
     /\ pc = "loop"
     /\ i >= 1
     /\ i < Len(hitting_moments) - 1
     /\ \A s \in CourtsOf(i + 1), e \in CourtsOf(i + 2) : C10_Half(s) = C10_Half(e))
    => \E r \in gemini_shot(i, Len(hitting_moments), hitting_moments[i + 1],
                            hitting_moments[i + 2], net_position, categories) :
          r.kind = "event"

(***************************************************************************)
(* correct_direction_by_strategy over both coarse predictions, every court *)
(* position (and one without "_"), both sides and every handedness.        *)
(***************************************************************************)
InitCorrect ==
    /\ call \in [fn : {"correct_direction_by_strategy"},
                 predicted_direction : {"cc", "dl"},
                 court_position : Quadrants \cup {"near"},
                 side : {"forehand", "backhand"},
                 handedness : Handednesses]
    /\ ret = NoRet
    /\ IdleRally

CallCorrectDirection ==
    /\ call.fn = "correct_direction_by_strategy"
    /\ ret = NoRet
    /\ ret' = Return(correct_direction_by_strategy(call.predicted_direction,
                                                   call.court_position,
                                                   call.side, call.handedness))
    /\ UNCHANGED <<call, rally_vars>>

SpecCorrect == InitCorrect /\ [][CallCorrectDirection]_vars

\* the (handedness, court side, side) cases of the branch table that pass the
\* prediction through
C12_PassThrough ==
    {<<"right", "deuce", "forehand">>, <<"right", "ad", "backhand">>,
     <<"left", "deuce", "backhand">>, <<"left", "ad", "forehand">>}

C12_OtherSide(side) ==
    IF side = "forehand" THEN "backhand" ELSE "forehand"

\* C12: for a prediction cc or dl and a court position among the four
\* quadrants, correct_direction_by_strategy returns the prediction unchanged
\* for unknown handedness and in the four pass-through cases (right/deuce/
\* forehand, right/ad/backhand, left/deuce/backhand, left/ad/forehand), and
\* otherwise ii for dl and io for cc; the result is in {ii, io, cc, dl}; and
\* the result for a left-hander equals the result for a right-hander with
\* forehand and backhand swapped.
C12_BranchTable ==
    (call.fn = "correct_direction_by_strategy" /\ ret # NoRet
        /\ call.court_position \in Quadrants)
    => LET case == <<call.handedness, Word(C10_Side(call.court_position)), call.side>>
           expected == IF call.handedness = "unknown" \/ case \in C12_PassThrough
                       THEN call.predicted_direction
                       ELSE IF call.predicted_direction = "dl" THEN "ii" ELSE "io"
       IN  /\ ret = Return(expected)
           /\ ret.val \in {"ii", "io", "cc", "dl"}
           /\ call.handedness = "left" =>
                ret.val = correct_direction_by_strategy(
                              call.predicted_direction, call.court_position,
                              C12_OtherSide(call.side), "right")

\* C12 witness: a left-hander's forehand from far_deuce predicted dl is
\* corrected to ii
C12_Witness ==
    /\ call.fn = "correct_direction_by_strategy"
    /\ call.handedness = "left" /\ call.side = "forehand"
    /\ call.court_position = "far_deuce" /\ call.predicted_direction = "dl"
    /\ ret = Return("ii")

\* C13 as stated: when the Gemini generator looks the direction of a shot up
\* from the quadrants of the hitter's and of the next hitter's position
\* (both given, as is the net), a direction CC means the two x coordinates
\* lie on opposite sides of net.x and a direction DL means they lie on the
\* same side of net.x.
C13_CrossCourtChangesSide ==
    (/\ IsEvent
     /\ call.fn = "gemini_shot"
     /\ call.i < call.n - 1
     /\ call.in.net # Null
     /\ "playerPosition" \in DOMAIN call.in.moment
     /\ "playerPosition" \in DOMAIN call.next)
    => LET hitter_left == call.in.moment.playerPosition.x < call.in.net.x
           receiver_left == call.next.playerPosition.x < call.in.net.x
       IN  /\ ret.comps.direction = "CC" => hitter_left # receiver_left
           /\ ret.comps.direction = "DL" => hitter_left = receiver_left

(***************************************************************************)
(* _get_bboxes_from_data (shot_labelling_model.py).  A JSON number is an   *)
(* int or a float: isinstance(bbox[2], int) tells them apart.              *)
(***************************************************************************)
Num(v, is_float) ==
    [val |-> v, float |-> is_float]

\* x + y on JSON numbers
Plus(x, y) ==
    Num(x.val + y.val, x.float \/ y.float)

\* isinstance(bbox, list) and len(bbox) == 4, on a bbox that is a list
IsFourList(bbox) ==
    Len(bbox) = 4

\* the loop of _get_bboxes_from_data from item k on
RECURSIVE get_bboxes_from(_, _)
get_bboxes_from(frame_data, k) ==
    IF k > Len(frame_data) THEN <<>>
    ELSE LET item == frame_data[k]
             rest == get_bboxes_from(frame_data, k + 1)
         IN  IF "bbox" \notin DOMAIN item THEN rest
             ELSE LET bbox == item.bbox
                  IN  IF IsFourList(bbox)
                      THEN IF ~bbox[3].float /\ bbox[3].val > bbox[1].val
                           THEN <<bbox>> \o rest
                           ELSE <<<<bbox[1], bbox[2], Plus(bbox[1], bbox[3]),
                                    Plus(bbox[2], bbox[4])>>>> \o rest
                      ELSE rest

_get_bboxes_from_data(frame_data) ==
    IF Len(frame_data) = 0 THEN <<>>
    ELSE get_bboxes_from(frame_data, 1)

MaxCoord == 2

MaxBoxes == 2

\* raw bbox lists of four numbers, all ints or all floats
RawBoxes ==
    {<<Num(a, f), Num(b, f), Num(c, f), Num(d, f)>> :
        a \in 0..(MaxCoord - 1), b \in 0..(MaxCoord - 1),
        c \in 0..MaxCoord, d \in 0..MaxCoord, f \in BOOLEAN}

\* the records of a frame of the box file: with a bbox of four numbers, with
\* a bbox of another length, or without bbox
BoxItems ==
    {[bbox |-> r] : r \in RawBoxes}
    \cup {[bbox |-> <<Num(0, FALSE), Num(0, FALSE), Num(1, FALSE)>>],
          [category_id |-> 1]}

InitBoxes ==
    /\ call \in {[fn |-> "_get_bboxes_from_data", frame_data |-> d] :
                    d \in UNION {[1..n -> BoxItems] : n \in 0..MaxBoxes}}
    /\ ret = NoRet
    /\ IdleRally

CallGetBboxes ==
    /\ call.fn = "_get_bboxes_from_data"
    /\ ret = NoRet
    /\ ret' = Return(_get_bboxes_from_data(call.frame_data))
    /\ UNCHANGED <<call, rally_vars>>

SpecBoxes == InitBoxes /\ [][CallGetBboxes]_vars

\* the records of the call's frame data that hold a bbox of four numbers
C14_WellFormed ==
    SelectSeq(call.frame_data,
              LAMBDA item : "bbox" \in DOMAIN item /\ Len(item.bbox) = 4)

\* the stated rule on one raw bbox, as values
C14_Rule(raw) ==
    IF raw[3].val >= raw[1].val /\ raw[4].val >= raw[2].val
    THEN <<raw[1].val, raw[2].val, raw[3].val, raw[4].val>>
    ELSE <<raw[1].val, raw[2].val, raw[1].val + raw[3].val, raw[2].val + raw[4].val>>

Values(box) ==
    [k \in 1..Len(box) |-> box[k].val]

\* C14 as stated: the boxes returned are, in order, the raw 4-tuples
\* (a, b, c, d) of the frame data, each kept as it is exactly when c >= a
\* and d >= b and otherwise turned into (a, b, a + c, b + d), whether the
\* numbers are ints or floats.
C14_NormalizationRule ==
    (call.fn = "_get_bboxes_from_data" /\ ret # NoRet)
    => /\ Len(ret.val) = Len(C14_WellFormed)
       /\ \A k \in 1..Len(ret.val) :
            Values(ret.val[k]) = C14_Rule(C14_WellFormed[k].bbox)

\* a raw box that is a valid [x1, y1, x2, y2] box, or an [x, y, w, h] box
\* with positive width and height
C15_ValidRaw(raw) ==
    \/ raw[1].val < raw[3].val /\ raw[2].val < raw[4].val
    \/ raw[3].val > 0 /\ raw[4].val > 0

\* C15 as stated: one box is returned for each well-formed record, in the
\* order of the input, and the box returned for a raw box that is a valid
\* [x1, y1, x2, y2] box or an [x, y, w, h] box with w, h > 0 has x1 < x2 and
\* y1 < y2.
C15_PositiveExtent ==
    (call.fn = "_get_bboxes_from_data" /\ ret # NoRet)
    => /\ Len(ret.val) = Len(C14_WellFormed)
       /\ \A k \in 1..Len(ret.val) :
            LET raw == C14_WellFormed[k].bbox
                box == Values(ret.val[k])
            IN  /\ box[1] = raw[1].val
                /\ box[2] = raw[2].val
                /\ C15_ValidRaw(raw) => (box[1] < box[3] /\ box[2] < box[4])

(***************************************************************************)
(* Frame key resolution of extract_player_images (shot_labelling_model.py).*)
(* Keys are strings (character sequences); the box file is a dict, of      *)
(* which only the keys in their order matter here.                         *)
(***************************************************************************)
Digits == <<"0", "1", "2", "3", "4", "5", "6", "7", "8", "9">>

\* str(n) for n >= 0
RECURSIVE Str(_)
Str(n) ==
    IF n < 10 THEN <<Digits[n + 1]>>
    ELSE Str(n \div 10) \o <<Digits[(n % 10) + 1]>>

\* f"{n:0{width}d}" for n >= 0
RECURSIVE Padded(_, _)
Padded(cs, width) ==
    IF Len(cs) >= width THEN cs ELSE Padded(<<"0">> \o cs, width)

FramePrefix == <<"f", "r", "a", "m", "e", "_">>

\* the list possible_keys built for frame_number
possible_keys(frame_number) ==
    <<Str(frame_number),
      Padded(Str(frame_number), 4),
      Padded(Str(frame_number), 6),
      FramePrefix \o Str(frame_number),
      FramePrefix \o Padded(Str(frame_number), 4)>>

\* int(cs) on a string of decimal digits; IsInt tells whether int(cs) parses
\* (ValueError otherwise)
RECURSIVE DigitsValue(_)
DigitsValue(cs) ==
    IF Len(cs) = 0 THEN 0
    ELSE 10 * DigitsValue(SubSeq(cs, 1, Len(cs) - 1))
         + (CHOOSE d \in 0..9 : Digits[d + 1] = cs[Len(cs)])

IsInt(cs) ==
    /\ Len(cs) > 0
    /\ \A k \in 1..Len(cs) : \E d \in 1..10 : Digits[d] = cs[k]

\* key.split("_")[-1] if "_" in key else key
clean_key(key) ==
    IF Contains(key, <<"_">>)
    THEN LET parts == Split(key, "_") IN parts[Len(parts)]
    ELSE key

\* s.replace(old, new): every non-overlapping occurrence, from the left
RECURSIVE Replace(_, _, _)
Replace(cs, old, new) ==
    IF Len(cs) < Len(old) THEN cs
    ELSE IF SubSeq(cs, 1, Len(old)) = old
    THEN new \o Replace(SubSeq(cs, Len(old) + 1, Len(cs)), old, new)
    ELSE <<cs[1]>> \o Replace(SubSeq(cs, 2, Len(cs)), old, new)

\* the first candidate that is a key of the box file ("" when none is)
RECURSIVE first_present(_, _, _)
first_present(candidates, bbox_keys, k) ==
    IF k > Len(candidates) THEN <<>>
    ELSE IF \E j \in 1..Len(bbox_keys) : bbox_keys[j] = candidates[k]
    THEN candidates[k]
    ELSE first_present(candidates, bbox_keys, k + 1)

\* the scan over bbox_data.keys() for a key whose cleaned form parses to
\* the frame number ("" when none does)
RECURSIVE numeric_match(_, _, _)
numeric_match(bbox_keys, frame_number, k) ==
    IF k > Len(bbox_keys) THEN <<>>
    ELSE IF IsInt(clean_key(bbox_keys[k]))
            /\ DigitsValue(clean_key(bbox_keys[k])) = frame_number
    THEN bbox_keys[k]
    ELSE numeric_match(bbox_keys, frame_number, k + 1)

\* frame_key of extract_player_images
resolve_frame_key(bbox_keys, frame_number) ==
    LET direct == first_present(possible_keys(frame_number), bbox_keys, 1)
    IN  IF direct # <<>> THEN direct
        ELSE numeric_match(bbox_keys, frame_number, 1)

\* next_frame_key of extract_player_images: the candidates are the keys
\* formatted for frame_number with str(frame_number) replaced by
\* str(next_frame_number)
resolve_next_frame_key(bbox_keys, frame_number, next_frame_number) ==
    LET formats == possible_keys(frame_number)
        next_keys == [k \in 1..Len(formats) |->
                        Replace(formats[k], Str(frame_number), Str(next_frame_number))]
        direct == first_present(next_keys, bbox_keys, 1)
    IN  IF direct # <<>> THEN direct
        ELSE numeric_match(bbox_keys, next_frame_number, 1)

MaxFrameNo == 10

MaxKeys == 3

\* the keys a box file can hold for frame n: the five formats tried first
\* and one ("img_007") that only the scan can match
KeysFor(n) ==
    {possible_keys(n)[k] : k \in 1..5}
    \cup {<<"i", "m", "g", "_">> \o Padded(Str(n), 3)}

\* box files: up to MaxKeys distinct keys, in any order, among the keys for
\* the two frames and one key that is not a frame key
BoxFiles(frame_number, next_frame_number) ==
    LET universe == KeysFor(frame_number) \cup KeysFor(next_frame_number)
                    \cup {<<"m", "e", "t", "a">>}
    IN  {keys \in UNION {[1..n -> universe] : n \in 0..MaxKeys} :
            \A j, k \in 1..Len(keys) : j # k => keys[j] # keys[k]}

InitKeys ==
    /\ \E f \in 0..MaxFrameNo :
         \E nf \in f..MaxFrameNo :
            \E keys \in BoxFiles(f, nf) :
                call = [fn |-> "resolve_frame_key", frame_number |-> f,
                        next_frame_number |-> nf, bbox_keys |-> keys]
    /\ ret = NoRet
    /\ IdleRally

\* extract_player_images as far as the two keys: the key of the next frame
\* is looked for only when the key of the frame was found
CallResolveKeys ==
    /\ call.fn = "resolve_frame_key"
    /\ ret = NoRet
    /\ LET frame_key == resolve_frame_key(call.bbox_keys, call.frame_number)
       IN  ret' = [frame_key |-> frame_key,
                   next_frame_key |->
                       IF frame_key = <<>> THEN <<>>
                       ELSE resolve_next_frame_key(call.bbox_keys, call.frame_number,
                                                   call.next_frame_number)]
    /\ UNCHANGED <<call, rally_vars>>

SpecKeys == InitKeys /\ [][CallResolveKeys]_vars

\* the number a key stands for: its part after the last "_" read as an
\* integer (-1 when that part is not a number)
C16_NumericValue(key) ==
    IF IsInt(clean_key(key)) THEN DigitsValue(clean_key(key)) ELSE -1

\* the formats in the stated priority order: plain, 4-digit padded, 6-digit
\* padded, then the "frame_"-prefixed forms
C16_Priority(n) ==
    <<Str(n), Padded(Str(n), 4), Padded(Str(n), 6),
      FramePrefix \o Str(n), FramePrefix \o Padded(Str(n), 4)>>

\* what the stated resolution gives for frame n: found exactly when some key
\* stands for n, the key found stands for n, and it is the first format of
\* the priority list that is a key, when one is
C16_Resolved(key, n) ==
    LET keys == {call.bbox_keys[k] : k \in 1..Len(call.bbox_keys)}
        formats == C16_Priority(n)
    IN  /\ (key # <<>>) <=> (\E q \in keys : C16_NumericValue(q) = n)
        /\ key # <<>> => C16_NumericValue(key) = n
        /\ \A k \in 1..Len(formats) :
             (formats[k] \in keys /\ \A j \in 1..(k - 1) : formats[j] \notin keys)
             => key = formats[k]

\* C16 as stated: the key resolved for the frame of the moment follows the
\* stated resolution, and so does the key resolved for the frame of the
\* next moment (looked for once the first was found).
C16_KeyResolution ==
    (call.fn = "resolve_frame_key" /\ ret # NoRet)
    => /\ C16_Resolved(ret.frame_key, call.frame_number)
       /\ ret.frame_key # <<>> =>
             C16_Resolved(ret.next_frame_key, call.next_frame_number)

(***************************************************************************)
(* _find_hitting_player and _find_hitting_players.  Boxes are              *)
(* [x_min, y_min, x_max, y_max] with integer coordinates.  Centers are     *)
(* kept doubled (x_min + x_max) and distances squared: doubling and        *)
(* squaring do not change which of two distances is smaller.               *)
(***************************************************************************)
\* twice the center of a box
bbox_center2(bbox) ==
    <<bbox[1] + bbox[3], bbox[2] + bbox[4]>>

\* four times the squared distance between a center and the position
distance2(center2, position) ==
    (center2[1] - 2 * position.x) * (center2[1] - 2 * position.x)
    + (center2[2] - 2 * position.y) * (center2[2] - 2 * position.y)

Abs(v) ==
    IF v < 0 THEN -v ELSE v

\* float('inf'), written as a number no distance takes
Infinity == -1

\* distance < min_distance
Closer(distance, min_distance) ==
    min_distance = Infinity \/ distance < min_distance

\* the loop "for i, center in enumerate(bbox_centers)" of
\* _find_hitting_player from position k (1-based) on; indexes are 0-based
RECURSIVE closest_from(_, _, _, _, _)
closest_from(bboxes, position, k, min_distance, closest_idx) ==
    IF k > Len(bboxes) THEN closest_idx
    ELSE LET distance == distance2(bbox_center2(bboxes[k]), position)
         IN  IF Closer(distance, min_distance)
             THEN closest_from(bboxes, position, k + 1, distance, k - 1)
             ELSE closest_from(bboxes, position, k + 1, min_distance, closest_idx)

\* _find_hitting_player that takes the last of several nearest boxes
find_hitting_player_last_nearest(bboxes, position) ==
    IF Len(bboxes) = 0 THEN -1
    ELSE LET d(k) == distance2(bbox_center2(bboxes[k]), position)
         IN  (CHOOSE k \in 1..Len(bboxes) :
                 /\ \A j \in 1..Len(bboxes) : d(k) <= d(j)
                 /\ \A j \in (k + 1)..Len(bboxes) : d(j) > d(k)) - 1

_find_hitting_player(bboxes, position) ==
    IF Len(bboxes) = 0 THEN -1
    ELSE closest_from(bboxes, position, 1, Infinity, -1)

\* the partner loop of _find_hitting_players from position k on
RECURSIVE partner_from(_, _, _, _, _)
partner_from(bboxes, hitting_player_idx, k, min_partner_distance, hitting_partner_idx) ==
    IF k > Len(bboxes) THEN hitting_partner_idx
    ELSE IF k - 1 # hitting_player_idx
    THEN LET distance == Abs(bbox_center2(bboxes[k])[1]
                             - bbox_center2(bboxes[hitting_player_idx + 1])[1])
         IN  IF Closer(distance, min_partner_distance)
             THEN partner_from(bboxes, hitting_player_idx, k + 1, distance, k - 1)
             ELSE partner_from(bboxes, hitting_player_idx, k + 1,
                               min_partner_distance, hitting_partner_idx)
    ELSE partner_from(bboxes, hitting_player_idx, k + 1,
                      min_partner_distance, hitting_partner_idx)

\* _find_hitting_players whose partner is the box nearest to the primary's
\* center x without the primary being left out
find_hitting_players_partner_not_excluded(bboxes, position) ==
    IF Len(bboxes) = 0 THEN <<-1, -1>>
    ELSE LET hitting_player_idx == closest_from(bboxes, position, 1, Infinity, -1)
             gap(k) == Abs(bbox_center2(bboxes[k])[1]
                           - bbox_center2(bboxes[hitting_player_idx + 1])[1])
         IN  <<hitting_player_idx,
               (CHOOSE k \in 1..Len(bboxes) :
                   /\ \A j \in 1..Len(bboxes) : gap(k) <= gap(j)
                   /\ \A j \in 1..(k - 1) : gap(j) > gap(k)) - 1>>

_find_hitting_players(bboxes, position) ==
    IF Len(bboxes) = 0 THEN <<-1, -1>>
    ELSE LET hitting_player_idx == closest_from(bboxes, position, 1, Infinity, -1)
         IN  <<hitting_player_idx,
               IF hitting_player_idx # -1
               THEN partner_from(bboxes, hitting_player_idx, 1, Infinity, -1)
               ELSE -1>>

MaxPlayers == 3

\* boxes with corners on the grid 0..MaxCoord and positive extent
GridBoxes ==
    {bbox \in [1..4 -> 0..MaxCoord] : bbox[1] < bbox[3] /\ bbox[2] < bbox[4]}

InitFind ==
    /\ \E fn \in {"_find_hitting_player", "_find_hitting_players"} :
         \E n \in 0..MaxPlayers :
            \E bboxes \in [1..n -> GridBoxes] :
               \E position \in [x : 0..MaxCoord, y : 0..MaxCoord] :
                  call = [fn |-> fn, bboxes |-> bboxes, position |-> position]
    /\ ret = NoRet
    /\ IdleRally

CallFindHittingPlayer ==
    /\ call.fn = "_find_hitting_player"
    /\ ret = NoRet
    /\ ret' = Return(_find_hitting_player(call.bboxes, call.position))
    /\ UNCHANGED <<call, rally_vars>>

CallFindHittingPlayers ==
    /\ call.fn = "_find_hitting_players"
    /\ ret = NoRet
    /\ ret' = Return(_find_hitting_players(call.bboxes, call.position))
    /\ UNCHANGED <<call, rally_vars>>

NextFind ==
    \/ CallFindHittingPlayer
    \/ CallFindHittingPlayers

SpecFind == InitFind /\ [][NextFind]_vars

\* four times the squared distance from the center of box k (0-based) of the
\* call to the call's position
C17_Distance(k) ==
    LET bbox == call.bboxes[k + 1]
    IN  (bbox[1] + bbox[3] - 2 * call.position.x) * (bbox[1] + bbox[3] - 2 * call.position.x)
        + (bbox[2] + bbox[4] - 2 * call.position.y) * (bbox[2] + bbox[4] - 2 * call.position.y)

\* index idx is the first among the indexes of the boxes nearest to the position
C17_FirstNearest(idx) ==
    /\ idx \in 0..(Len(call.bboxes) - 1)
    /\ \A j \in 0..(Len(call.bboxes) - 1) : C17_Distance(idx) <= C17_Distance(j)
    /\ \A j \in 0..(idx - 1) : C17_Distance(j) > C17_Distance(idx)

\* C17: _find_hitting_player returns -1 for an empty list of boxes and
\* otherwise the smallest index among the boxes whose center is nearest
\* (Euclidean distance) to the position.
C17_NearestFirstIndex ==
    (call.fn = "_find_hitting_player" /\ ret # NoRet)
    => IF Len(call.bboxes) = 0 THEN ret.val = -1
       ELSE C17_FirstNearest(ret.val)

\* C17 witness: three boxes of which the second and the third are equally
\* near and nearer than the first; index 1 is returned
C17_Witness ==
    /\ call.fn = "_find_hitting_player"
    /\ ret # NoRet
    /\ Len(call.bboxes) = 3
    /\ C17_Distance(1) = C17_Distance(2)
    /\ C17_Distance(1) < C17_Distance(0)
    /\ ret.val = 1

\* twice the distance on the x axis between the centers of boxes j and k
C18_Gap(j, k) ==
    LET cx(q) == call.bboxes[q + 1][1] + call.bboxes[q + 1][3]
    IN  IF cx(j) >= cx(k) THEN cx(j) - cx(k) ELSE cx(k) - cx(j)

\* C18: _find_hitting_players returns (-1, -1) for an empty list of boxes;
\* otherwise its primary index is what _find_hitting_player returns, its
\* partner index differs from the primary, is -1 exactly when there is a
\* single box, and otherwise is the first index other than the primary
\* whose center x is nearest to the center x of the primary.
C18_PrimaryAndPartner ==
    (call.fn = "_find_hitting_players" /\ ret # NoRet)
    => LET n == Len(call.bboxes)
           primary == ret.val[1]
           partner == ret.val[2]
           others == (0..(n - 1)) \ {primary}
       IN  IF n = 0 THEN ret.val = <<-1, -1>>
           ELSE /\ C17_FirstNearest(primary)
                /\ primary = _find_hitting_player(call.bboxes, call.position)
                /\ partner # primary
                /\ (partner = -1) <=> (n = 1)
                /\ n > 1 =>
                     /\ partner \in others
                     /\ \A j \in others : C18_Gap(partner, primary) <= C18_Gap(j, primary)
                     /\ \A j \in others : j < partner =>
                           C18_Gap(j, primary) > C18_Gap(partner, primary)

\* C18 witness: three boxes, the primary is the last one and the two others
\* are equally near to it on the x axis; the partner is index 0
C18_Witness ==
    /\ call.fn = "_find_hitting_players"
    /\ ret # NoRet
    /\ Len(call.bboxes) = 3
    /\ ret.val = <<2, 0>>
    /\ C18_Gap(0, 2) = C18_Gap(1, 2)

(***************************************************************************)
(* get_player_from_hitting_moment on moments that name the player, carry   *)
(* boundingBoxes, or neither, next to the detections of the moment's frame *)
(* (the boxes the Player Matcher would work on), which the function is not *)
(* given.                                                                  *)
(***************************************************************************)
\* boundingBoxes values: the largest box has a category, has none, the list
\* is empty, the only box has no bbox
MomentBoxes ==
    {TwoBoxes,
     <<[bbox |-> <<0, 0, 1, 1>>, category_id |-> 1], [bbox |-> <<0, 0, 2, 2>>]>>,
     <<>>,
     <<[category_id |-> 3]>>}

PlayerMoments ==
    {who @@ at :
        who \in {EmptyObject} \cup {[playerId |-> k] : k \in 1..4}
                \cup {[boundingBoxes |-> boxes] : boxes \in MomentBoxes},
        at \in {EmptyObject, [playerPosition |-> [x |-> 0, y |-> 2]]}}

\* the detections of the frame: none, one player, or two players of known
\* category
FrameDetections ==
    {<<>>,
     <<[bbox |-> <<0, 1, 2, 3>>, category_id |-> 3]>>,
     <<[bbox |-> <<0, 0, 2, 2>>, category_id |-> 4],
       [bbox |-> <<0, 1, 2, 3>>, category_id |-> 2]>>}

InitPlayer ==
    /\ call \in [fn : {"get_player_from_hitting_moment"},
                 hitting_moment : PlayerMoments,
                 detections : FrameDetections]
    /\ ret = NoRet
    /\ IdleRally

CallGetPlayer ==
    /\ call.fn = "get_player_from_hitting_moment"
    /\ ret = NoRet
    /\ \E player \in get_player_from_hitting_moment(call.hitting_moment) :
          ret' = Return(player)
    /\ UNCHANGED <<call, rally_vars>>

SpecPlayer == InitPlayer /\ [][CallGetPlayer]_vars

\* the index the Player Matcher gives for the call's moment among the
\* detections of its frame (-1: nothing)
C19_Matched ==
    IF "playerPosition" \in DOMAIN call.hitting_moment
    THEN _find_hitting_player([k \in 1..Len(call.detections) |-> call.detections[k].bbox],
                              call.hitting_moment.playerPosition)
    ELSE -1

\* C19 as stated: the player is the moment's playerId when it has one; else
\* the category of the largest box of its boundingBoxes when that gives
\* one; else the player the Player Matcher finds for the moment's position
\* among the detections; and a random id in 1..4 only when all three gave
\* nothing.
C19_FallbackChain ==
    (call.fn = "get_player_from_hitting_moment" /\ ret # NoRet)
    => LET moment == call.hitting_moment
           boxes == Get(moment, "boundingBoxes", <<>>)
       IN  IF "playerId" \in DOMAIN moment
           THEN ret.val = moment.playerId
           ELSE IF Len(boxes) > 0 /\ "category_id" \in DOMAIN largest_box(boxes)
           THEN ret.val = largest_box(boxes).category_id
           ELSE IF C19_Matched # -1
           THEN ret.val = call.detections[C19_Matched + 1].category_id
           ELSE ret.val \in 1..4

(***************************************************************************)
(* Failure isolation in the walk over a rally's moments (Spec).            *)
(***************************************************************************)
\* the moments of the sorted rally the walk has produced an event for
C20_Labelled == {built[k].moment : k \in 1..Len(built)}

\* C20: a raise while moment i is processed costs the event of moment i
\* only, for every strategy: the generator is never left by it, and when the
\* walk has ended every moment has been visited and the events are, in
\* order, those of the moments that did not fail.
C20_FailureIsolation ==
    /\ pc # "failed"
    /\ pc = "done" =>
          /\ i = Len(hitting_moments)
          /\ Len(events) = Cardinality(C20_Labelled)
          /\ \A k \in 1..Len(built) - 1 : built[k].moment < built[k + 1].moment

(***************************************************************************)
(* Classifier failures (SpecShot).                                         *)
(***************************************************************************)
\* the rule-based defaults of the components of moment k (0-based)
C21_Defaults(c, k) ==
    /\ c.side = "forehand"
    /\ c.shot_type = (IF k = 0 THEN "serve" ELSE IF k = 1 THEN "return" ELSE "swing")
    /\ c.direction = (IF k = 0 THEN "t" ELSE "cc")
    /\ k = 0 => c.formation = "conventional"

\* the CNN generator is called with no model loaded on a moment that has a
\* frame
C21_NotLoaded ==
    /\ call.fn = "cnn_shot"
    /\ call.models = {}
    /\ ("frameNumber" \in DOMAIN call.in.moment \/ "frame" \in DOMAIN call.in.moment)

\* C21: a failure of the classifier never aborts the rally and never drops
\* the event: no call of a Gemini analysis ends in a raise, and the CNN
\* generator without loaded models emits the event with the rule-based
\* defaults (side forehand, shot type swing unless forced by the role,
\* direction cc or t for a serve, formation conventional for a serve).
C21_FailureGivesDefaults ==
    ret # NoRet =>
       /\ call.fn \in {"gemini_serve", "gemini_shot"} => ret.kind # "raise"
       /\ C21_NotLoaded => (ret.kind = "event" /\ C21_Defaults(ret.comps, call.i))

(***************************************************************************)
(* The list of rallies generate_labels writes (Spec).                      *)
(***************************************************************************)
\* C22: a rally for which no event was produced is skipped: it adds no
\* entry to the output list of rallies, so every entry of the list has at
\* least one event (and the rallies after it are still labelled).
C22_NoEmptyEntry ==
    \A k \in 1..Len(predicted_rallies) : Len(predicted_rallies[k].events) >= 1

(***************************************************************************)
(* Determinism of the labelling under a deterministic classifier: the CNN  *)
(* generator with no model loaded answers every prediction with its fixed  *)
(* default (SpecShot).                                                     *)
(***************************************************************************)
\* every result a second run of the same call can give
C23_SecondRun ==
    cnn_shot(call.i, call.n, call.in.moment, call.in.net, call.in.categories, call.models)

\* C23: labelling the same moment twice with a deterministic classifier
\* gives the same event (player, court position, label, outcome), also for
\* a moment without playerId, boundingBoxes or playerPosition and a rally
\* without net position.
C23_Deterministic ==
    (call.fn = "cnn_shot" /\ call.models = {} /\ ret # NoRet)
    => \A again \in C23_SecondRun : again = ret

\* C24: for every handedness the sequencer can resolve ("left", "right" and
\* "unknown"), side forehand or backhand and start and end on opposite
\* halves, get_shot_direction returns one of II, IO, CC, DL and does not
\* raise.
C24_UnknownHandednessServed ==
    (call.fn = "get_shot_direction" /\ ret # NoRet
        /\ call.handedness \in {"left", "right", "unknown"}
        /\ call.side \in {"forehand", "backhand"}
        /\ C10_Half(call.start) # C10_Half(call.end))
    => /\ ~ret.raised
       /\ ret.val \in {"II", "IO", "CC", "DL"}

\* C25: in every emitted event the outcome field is the last token of the
\* event's label, also for the last event of a rally, whose outcome is
\* decided again after the label was built.
C25_OutcomeIsLastToken ==
    IsEvent => Tokens[Len(Tokens)] = Spell[ret.event.outcome]

(***************************************************************************)
(* The direction table of get_shot_direction against the rules of          *)
(* correct_direction_by_strategy (SpecCorrect).                            *)
(***************************************************************************)
\* a direction code of the table in lower case
C26_Lower(d) ==
    CASE d = "II" -> "ii" [] d = "IO" -> "io" [] d = "CC" -> "cc" [] d = "DL" -> "dl"
      [] OTHER -> d

\* what get_shot_direction gives, in lower case, for the call's handedness
\* and side from the call's court position to the quadrant of the other
\* half on the same (same = TRUE) or the other ad/deuce side
C26_TableEntry(same) ==
    LET end == CHOOSE q \in Quadrants :
                   /\ C10_Half(q) # C10_Half(call.court_position)
                   /\ (C10_Side(q) = C10_Side(call.court_position)) = same
    IN  C26_Lower(get_shot_direction(call.handedness, call.side,
                                     call.court_position, end).val)

\* C26: for handedness left or right, side forehand or backhand and a start
\* on the deuce or the ad side, the directions the table gives over both
\* end sides are, ignoring case, the directions correct_direction_by_strategy
\* gives over the predictions cc and dl; dl is mapped to the table's entry
\* for an end on the other side, cc to its entry for an end on the same
\* side.
C26_TablesAgree ==
    (call.fn = "correct_direction_by_strategy" /\ ret # NoRet
        /\ call.handedness \in {"left", "right"}
        /\ call.court_position \in Quadrants)
    => /\ ret.val = C26_TableEntry(call.predicted_direction = "cc")
       /\ {C26_TableEntry(same) : same \in BOOLEAN}
          = {correct_direction_by_strategy(p, call.court_position, call.side,
                                           call.handedness) : p \in {"cc", "dl"}}

\* C26 witness: a left-hander's straight forehand from the deuce side is
\* corrected to ii, the table's entry from deuce to ad
C26_Witness ==
    /\ call.fn = "correct_direction_by_strategy"
    /\ call.handedness = "left" /\ call.side = "forehand"
    /\ call.court_position = "far_deuce" /\ call.predicted_direction = "dl"
    /\ ret = Return("ii")
    /\ get_shot_direction("left", "forehand", "far_deuce", "near_ad") = Return("II")

(***************************************************************************)
(* The label routes (routes/label.py) on the two label files of one video. *)
(* A file is Null when it does not exist; its content is the JSON object   *)
(* with the list of rallies, each holding its list of events.  An event is *)
(* modelled by a name.  requests is the log of the update_label requests   *)
(* handled so far with their status, first_read the content the first      *)
(* update_label loaded.                                                    *)
(***************************************************************************)
LabelFiles ==
    {[rallies |-> <<[events |-> <<"a", "b">>], [events |-> <<"c">>]>>],
     [rallies |-> <<[events |-> <<>>, error |-> "Failed to generate any valid events"]>>],
     [rallies |-> <<>>]}

\* the indexes and events a request can carry
Indexes == -2..2

UpdatedEvents == {"x", "y"}

MaxUpdates == 2

\* Python's list[k]: the 1-based place of index k in a list of n elements,
\* 0 when list[k] raises IndexError
list_place(k, n) ==
    IF k >= 0 /\ k < n THEN k + 1
    ELSE IF k < 0 /\ k >= -n THEN n + k + 1
    ELSE 0

InitLabels ==
    /\ call = NoCall
    /\ ret = NoRet
    /\ IdleGenerator
    /\ generated \in LabelFiles \cup {Null}
    /\ confirmed \in {Null, generated}
    /\ first_read = Null
    /\ training_status = [running |-> FALSE]
    /\ inferring_status = [running |-> FALSE]
    /\ requests = <<>>
    /\ threads = <<>>

\* the response of update_label and the confirmed file after it, for the
\* request body data
update_label(data) ==
    LET source == IF confirmed # Null THEN confirmed ELSE generated
        unchanged(status) == [status |-> status, confirmed |-> confirmed, loaded |-> Null]
        failed(status) == [status |-> status, confirmed |-> confirmed, loaded |-> source]
    IN  IF source = Null THEN unchanged(404)
        ELSE IF ~({"rallyIndex", "eventIndex", "updatedEvent"} \subseteq DOMAIN data)
        THEN unchanged(400)
        ELSE LET labels_data == source
                 rally_index == data.rallyIndex
                 event_index == data.eventIndex
                 n_rallies == Len(labels_data.rallies)
                 r == list_place(rally_index, n_rallies)
             IN  IF rally_index >= n_rallies THEN failed(400)
                 ELSE IF r = 0 THEN failed(500)
                 ELSE LET rally == labels_data.rallies[r]
                          n_events == Len(rally.events)
                          e == list_place(event_index, n_events)
                      IN  IF event_index >= n_events THEN failed(400)
                          ELSE IF e = 0 THEN failed(500)
                          ELSE [status |-> 200,
                                confirmed |->
                                    [labels_data EXCEPT
                                        !.rallies[r].events[e] = data.updatedEvent],
                                loaded |-> source]

UpdateLabel ==
    /\ Len(requests) < MaxUpdates
    /\ \E data \in [rallyIndex : Indexes, eventIndex : Indexes, updatedEvent : UpdatedEvents]
                   \cup [rallyIndex : {0}, eventIndex : {0}] :
          LET response == update_label(data)
          IN  /\ call' = [fn |-> "update_label", data |-> data]
              /\ ret' = [status |-> response.status]
              /\ confirmed' = response.confirmed
              /\ first_read' = IF first_read = Null THEN response.loaded ELSE first_read
              /\ requests' = Append(requests, [data |-> data, status |-> response.status])
    /\ UNCHANGED <<generator_vars, generated, training_status, inferring_status, threads>>

\* get_labels: the confirmed file when it exists, else the generated one
GetLabels ==
    /\ call' = [fn |-> "get_labels"]
    /\ ret' = IF confirmed # Null THEN [status |-> 200, data |-> confirmed, source |-> "confirmed"]
              ELSE IF generated # Null
              THEN [status |-> 200, data |-> generated, source |-> "generated"]
              ELSE [status |-> 404]
    /\ UNCHANGED <<generator_vars, service_vars>>

NextLabels ==
    \/ UpdateLabel
    \/ GetLabels

SpecLabels == InitLabels /\ [][NextLabels]_vars

\* the file update_label reads: the confirmed one when it exists
C28_Source ==
    IF confirmed # Null THEN confirmed ELSE generated

\* the request names no event of the file: its rallyIndex is outside
\* [0, number of rallies) or its eventIndex outside [0, number of events of
\* that rally)
C28_OutOfRange(data, file) ==
    \/ data.rallyIndex \notin 0..(Len(file.rallies) - 1)
    \/ data.eventIndex \notin 0..(Len(file.rallies[data.rallyIndex + 1].events) - 1)

\* C28: update_label with a rallyIndex or an eventIndex out of range,
\* negative indexes included, answers 400 and leaves the confirmed and the
\* generated label file as they were.
C28_OutOfRangeRejected ==
    [][(/\ requests' # requests
        /\ C28_Source # Null
        /\ "updatedEvent" \in DOMAIN call'.data
        /\ C28_OutOfRange(call'.data, C28_Source))
       => (/\ ret'.status = 400
           /\ confirmed' = confirmed
           /\ generated' = generated)]_vars

\* the successful update_label requests for event e of rally r (0-based)
C27_Edits(r, e) ==
    {k \in 1..Len(requests) :
        /\ requests[k].status = 200
        /\ requests[k].data.rallyIndex = r
        /\ requests[k].data.eventIndex = e}

\* what event e of rally r has to be after the requests handled so far
C27_Expected(r, e) ==
    IF C27_Edits(r, e) = {}
    THEN first_read.rallies[r + 1].events[e + 1]
    ELSE LET last == CHOOSE k \in C27_Edits(r, e) : \A j \in C27_Edits(r, e) : j <= k
         IN  requests[last].data.updatedEvent

\* C27: after any sequence of successful update_label calls get_labels
\* returns source "confirmed" and data in which each edited (rallyIndex,
\* eventIndex) holds its most recent updatedEvent and every other event is
\* as in the file first read; update_label never modifies the generated
\* file.
C27_EditsAccumulate ==
    /\ [](  (/\ call.fn = "get_labels"
             /\ \E k \in 1..Len(requests) : requests[k].status = 200)
          => /\ ret.source = "confirmed"
             /\ Len(ret.data.rallies) = Len(first_read.rallies)
             /\ \A r \in 0..(Len(first_read.rallies) - 1) :
                   /\ Len(ret.data.rallies[r + 1].events)
                        = Len(first_read.rallies[r + 1].events)
                   /\ \A e \in 0..(Len(first_read.rallies[r + 1].events) - 1) :
                         ret.data.rallies[r + 1].events[e + 1] = C27_Expected(r, e))
    /\ [][generated' = generated]_vars

(***************************************************************************)
(* The training routes (routes/training.py).  Flask serves the requests    *)
(* concurrently; a start_training request reads training_status, validates *)
(* its input and starts a thread running run_training, which is the one to *)
(* set training_status["running"].  requests maps each request to its      *)
(* position in start_training and its answer, threads lists the training   *)
(* threads started with their position in run_training.                    *)
(***************************************************************************)
MaxRequests == 2

InitTraining ==
    /\ call = NoCall
    /\ ret = NoRet
    /\ IdleGenerator
    /\ confirmed = Null
    /\ generated = Null
    /\ first_read = Null
    /\ training_status = [running |-> FALSE]
    /\ inferring_status = [running |-> FALSE]
    /\ requests = [r \in 1..MaxRequests |-> [pc |-> "arrived", status |-> 0]]
    /\ threads = <<>>

\* start_training reads the flag: 400 when a training is marked running
CheckRunning(r) ==
    /\ requests[r].pc = "arrived"
    /\ requests' = [requests EXCEPT ![r] =
                       IF training_status.running
                       THEN [pc |-> "answered", status |-> 400]
                       ELSE [pc |-> "validating", status |-> 0]]
    /\ UNCHANGED <<call, ret, generator_vars, confirmed, generated, first_read,
                   training_status, inferring_status, threads>>

\* no video_id in the request (400) or no annotation file for it (404)
RejectInput(r) ==
    /\ requests[r].pc = "validating"
    /\ \E status \in {400, 404} :
          requests' = [requests EXCEPT ![r] = [pc |-> "answered", status |-> status]]
    /\ UNCHANGED <<call, ret, generator_vars, confirmed, generated, first_read,
                   training_status, inferring_status, threads>>

\* the training thread is started and the request answered with 200
StartThread(r) ==
    /\ requests[r].pc = "validating"
    /\ threads' = Append(threads, [pc |-> "started", request |-> r])
    /\ requests' = [requests EXCEPT ![r] = [pc |-> "answered", status |-> 200]]
    /\ UNCHANGED <<call, ret, generator_vars, confirmed, generated, first_read,
                   training_status, inferring_status>>

\* run_training begins: it marks the training as running
MarkRunning(t) ==
    /\ threads[t].pc = "started"
    /\ training_status' = [running |-> TRUE]
    /\ threads' = [threads EXCEPT ![t].pc = "configuring"]
    /\ UNCHANGED <<call, ret, generator_vars, confirmed, generated, first_read,
                   inferring_status, requests>>

\* the configurations are updated and the training process is launched
LaunchProcess(t) ==
    /\ threads[t].pc = "configuring"
    /\ threads' = [threads EXCEPT ![t].pc = "process"]
    /\ UNCHANGED <<call, ret, generator_vars, confirmed, generated, first_read,
                   training_status, inferring_status, requests>>

\* update_configurations fails or the launch raises: the except branch
TrainingError(t) ==
    /\ threads[t].pc = "configuring"
    /\ training_status' = [running |-> FALSE]
    /\ threads' = [threads EXCEPT ![t].pc = "failed"]
    /\ UNCHANGED <<call, ret, generator_vars, confirmed, generated, first_read,
                   inferring_status, requests>>

\* monitor_process: the training process has ended, with or without error
ProcessEnds(t) ==
    /\ threads[t].pc = "process"
    /\ training_status' = [running |-> FALSE]
    /\ threads' = [threads EXCEPT ![t].pc = "ended"]
    /\ UNCHANGED <<call, ret, generator_vars, confirmed, generated, first_read,
                   inferring_status, requests>>

NextTraining ==
    \/ \E r \in 1..MaxRequests : CheckRunning(r)
    \/ \E r \in 1..MaxRequests : RejectInput(r)
    \/ \E r \in 1..MaxRequests : StartThread(r)
    \/ \E t \in 1..Len(threads) : MarkRunning(t)
    \/ \E t \in 1..Len(threads) : LaunchProcess(t)
    \/ \E t \in 1..Len(threads) : TrainingError(t)
    \/ \E t \in 1..Len(threads) : ProcessEnds(t)

SpecTraining == InitTraining /\ [][NextTraining]_vars

\* the training threads that have been started and have not finished
C29_InProgress ==
    {t \in 1..Len(threads) : threads[t].pc \in {"started", "configuring", "process"}}

\* C29: at most one training is in progress at any time, whatever the
\* interleaving of the start_training requests (a request arriving while a
\* training is in progress starts no second thread), and the running flag
\* is false again once every training has ended or failed.
C29_SingleTraining ==
    /\ Cardinality(C29_InProgress) <= 1
    /\ C29_InProgress = {} => ~training_status.running

(***************************************************************************)
(* run_model (routes/inference.py), one request after the other.  requests *)
(* is the log of the run_model requests: the position of each in the       *)
(* handler and, once it is answered, its status.                           *)
(***************************************************************************)
MaxRuns == 2

InitInference ==
    /\ call = NoCall
    /\ ret = NoRet
    /\ IdleGenerator
    /\ confirmed = Null
    /\ generated = Null
    /\ first_read = Null
    /\ training_status = [running |-> FALSE]
    /\ inferring_status = [running |-> FALSE]
    /\ requests = <<>>
    /\ threads = <<>>

\* the request being handled, 0 when there is none
executing ==
    IF requests # <<>> /\ requests[Len(requests)].pc # "answered"
    THEN Len(requests) ELSE 0

\* the handler moves on to position next
step_to(next) ==
    requests' = [requests EXCEPT ![executing] = [pc |-> next, status |-> 0]]

\* the handler returns, or an exception leaves it, with status and message
answer(status, message) ==
    requests' = [requests EXCEPT ![executing] =
                    [pc |-> "answered", status |-> status, message |-> message]]

\* run_model is entered: the flag is set before anything is looked at
EnterRunModel ==
    /\ executing = 0
    /\ Len(requests) < MaxRuns
    /\ inferring_status' = [running |-> TRUE]
    /\ requests' = Append(requests, [pc |-> "entered", status |-> 0])
    /\ UNCHANGED <<call, ret, generator_vars, confirmed, generated, first_read,
                   training_status, threads>>

\* data['video_id']: a request without video_id raises KeyError, which
\* leaves the handler (500)
ReadVideoId ==
    /\ executing # 0 /\ requests[executing].pc = "entered"
    /\ (step_to("paths") \/ answer(500, "KeyError"))
    /\ UNCHANGED <<call, ret, generator_vars, confirmed, generated, first_read,
                   training_status, inferring_status, threads>>

\* the frames directory does not exist: 404
CheckFramesDir ==
    /\ executing # 0 /\ requests[executing].pc = "paths"
    /\ (step_to("labels") \/ answer(404, "Frames directory does not exist"))
    /\ UNCHANGED <<call, ret, generator_vars, confirmed, generated, first_read,
                   training_status, inferring_status, threads>>

\* the labels file is missing (404) or is not JSON (400)
ReadLabels ==
    /\ executing # 0 /\ requests[executing].pc = "labels"
    /\ (\/ step_to("frames")
        \/ answer(404, "Labels file not found")
        \/ answer(400, "Invalid labels file"))
    /\ UNCHANGED <<call, ret, generator_vars, confirmed, generated, first_read,
                   training_status, inferring_status, threads>>

\* the directory holds no frame: 404
ListFrames ==
    /\ executing # 0 /\ requests[executing].pc = "frames"
    /\ (step_to("inference") \/ answer(404, "No frames found"))
    /\ UNCHANGED <<call, ret, generator_vars, confirmed, generated, first_read,
                   training_status, inferring_status, threads>>

\* process_frames: an error message clears the flag and answers 500
ProcessFrames ==
    /\ executing # 0 /\ requests[executing].pc = "inference"
    /\ \/ /\ step_to("pose")
          /\ UNCHANGED inferring_status
       \/ /\ answer(500, "inference failed")
          /\ inferring_status' = [running |-> FALSE]
    /\ UNCHANGED <<call, ret, generator_vars, confirmed, generated, first_read,
                   training_status, threads>>

\* process_pose: it returns and the flag is cleared (200), or it raises and
\* the exception leaves the handler (500)
ProcessPose ==
    /\ executing # 0 /\ requests[executing].pc = "pose"
    /\ \/ /\ answer(200, "Inference completed for all frames")
          /\ inferring_status' = [running |-> FALSE]
       \/ /\ answer(500, "exception in process_pose")
          /\ UNCHANGED inferring_status
    /\ UNCHANGED <<call, ret, generator_vars, confirmed, generated, first_read,
                   training_status, threads>>

NextInference ==
    \/ EnterRunModel
    \/ ReadVideoId
    \/ CheckFramesDir
    \/ ReadLabels
    \/ ListFrames
    \/ ProcessFrames
    \/ ProcessPose

SpecInference == InitInference /\ [][NextInference]_vars

\* C30: inferring_status["running"] is true only while a run_model request
\* is executing: whichever way run_model finished (success, missing frames
\* directory, missing or invalid labels file, no frames, inference failure,
\* exception in the pose processing, request without video_id), the flag is
\* false afterwards.
C30_FlagOnlyWhileExecuting ==
    inferring_status.running => executing # 0

====
